---- MODULE Spec2Model ----
(***************************************************************************)
(* Model of the cover worker (src/app.py): the /process intake, the        *)
(* background job runner process_job, the FAST transform fast_ffmpeg and   *)
(* the HQ transform hq_demucs, over an explicit /tmp file system and an    *)
(* explicit object store.                                                  *)
(*                                                                         *)
(* Jobs run as background tasks of separate requests, so their steps       *)
(* interleave.  Each blocking call of the code (a storage call, an engine  *)
(* process) is one step of the job that makes it; an exception is handled  *)
(* in the step that raises it (the except clause's log line is written by  *)
(* that step), and the finally clause is a step of its own.                *)
(*                                                                         *)
(* External collaborators are modelled by their contract: a storage call   *)
(* or an engine run either succeeds with a result that is a function of    *)
(* its input files, or fails; which one is the environment's choice.       *)
(* Callers keep the jobId unique among the jobs that are running (spec,    *)
(* data model); a jobId is reused only after its job has finished.         *)
(***************************************************************************)
EXTENDS Integers, Sequences, FiniteSets, TLC

\* ------------------------------------------------------------------ bounds
\* Number of /process requests accepted in one behaviour.
MaxJobs == 2

\* ------------------------------------------------------------------ inputs
UserIds == {"u1"}
JobIds == {"", "j1"}
\* "source/u1/a.mp3" holds audio, "source/u1/z.mp3" holds an mp3 with no audio
\* frames, and no object is stored under "".
SourceKeys == {"", "source/u1/a.mp3", "source/u1/z.mp3"}

\* ------------------------------------------------------- file contents
\* A content is a sequence of tags: the raw audio's name preceded by the
\* transforms applied to it, innermost last.
Audio == <<"a">>
ZeroAudio == <<"z">>
Empty == <<"empty">>
Partial == <<"partial">>

SourceObjects == ("source/u1/a.mp3" :> Audio) @@ ("source/u1/z.mp3" :> ZeroAudio)

\* ------------------------------------------------------- environments
\* os.environ and the ffmpeg build, as the process finds them at start.
Unset == "<unset>"
Environments ==
  { [R2_ACCOUNT_ID |-> "acc", R2_BUCKET |-> "covers",
     R2_PUBLIC_BASE |-> "https://cdn.example", HQ_DEFAULT |-> Unset, rubberband |-> TRUE],
    [R2_ACCOUNT_ID |-> "acc", R2_BUCKET |-> "covers",
     R2_PUBLIC_BASE |-> Unset, HQ_DEFAULT |-> "1", rubberband |-> FALSE],
    [R2_ACCOUNT_ID |-> "acc", R2_BUCKET |-> Unset,
     R2_PUBLIC_BASE |-> Unset, HQ_DEFAULT |-> "0", rubberband |-> FALSE],
    [R2_ACCOUNT_ID |-> Unset, R2_BUCKET |-> "covers",
     R2_PUBLIC_BASE |-> Unset, HQ_DEFAULT |-> "0", rubberband |-> FALSE] }

VARIABLES
  environ,   \* the process environment (fixed at start)
  fs,        \* files under /tmp: path -> content
  dirs,      \* directories under /tmp/demucs_out that exist
  store,     \* the bucket: key -> content
  jobs,      \* per jobId: the runner's position and its arguments and locals
  ack,       \* per jobId: the response /process returned for it
  log,       \* per jobId: the lines its run printed (fallback, ERROR, done)
  hist,      \* per jobId: what its run has done so far (observation only)
  accepted   \* number of requests accepted

vars == <<environ, fs, dirs, store, jobs, ack, log, hist, accepted>>

\* ------------------------------------------------------------ helpers
Exists(f, p) == p \in DOMAIN f
Write(f, p, c) == (p :> c) @@ f
Remove(f, P) == [p \in (DOMAIN f) \ P |-> f[p]]

\* os.environ.get(name, default) / os.getenv(name, default)
getenv(name, default) == IF environ[name] = Unset THEN default ELSE environ[name]

\* src/app.py:22
HQ_DEFAULT == getenv("HQ_DEFAULT", "0") = "1"

\* ------------------------------------------------------------- paths
tmp == "/tmp"
SrcPath(j) == tmp \o "/" \o j \o "_src.mp3"
OutPath(j) == tmp \o "/" \o j \o "_proc.mp3"
\* src_path.stem
SrcStem(j) == j \o "_src"
T110Path(j) == tmp \o "/" \o SrcStem(j) \o "_t110.mp3"
PitchPath(j) == tmp \o "/" \o SrcStem(j) \o "_dn2.mp3"
demucs_out == tmp \o "/" \o "demucs_out"
\* demucs -n mdx -o demucs_out <track> writes demucs_out/mdx/<track stem>/
ModelDir == demucs_out \o "/mdx"
PitchStem(j) == SrcStem(j) \o "_dn2"
TrackDir(j) == ModelDir \o "/" \o PitchStem(j)
VocalsPath(j) == TrackDir(j) \o "/vocals.wav"
NoVocalsPath(j) == TrackDir(j) \o "/no_vocals.wav"

\* The paths process_job derives from its job_id, and those hq_demucs derives
\* from them.
WorkspacePaths(j) == {SrcPath(j), OutPath(j)}
IntermediatePaths(j) == {T110Path(j), PitchPath(j)}
StemPaths(j) == {VocalsPath(j), NoVocalsPath(j)}
AllStemPaths == UNION {StemPaths(j) : j \in JobIds}

\* mode.lower()
lower(m) == IF m = "HQ" THEN "hq" ELSE "fast"
Mode(hq) == IF hq THEN "HQ" ELSE "FAST"
out_key(user_id, job_id, hq) ==
  "pre/" \o user_id \o "/" \o job_id \o "_proc_" \o lower(Mode(hq)) \o ".mp3"
Url(key) ==
  LET public == getenv("R2_PUBLIC_BASE", "")
  IN IF public # "" THEN public \o "/" \o key ELSE key


\* --------------------------------------------------------- engines
\* What ffmpeg writes when it exits 0: a stream without audio frames encodes
\* to an empty file ("Output file is empty, nothing was encoded"), anything
\* else to the transform `tag` of the input.
Encoded(tag, c) == IF c = ZeroAudio THEN Empty ELSE <<tag>> \o c
Decodable(c) == c \notin {Empty, Partial}

\* src/app.py:30-32 run(cmd) for an ffmpeg command reading `inputs` and writing
\* `outp`: the set of possible results.  subprocess.run(check=True) raises on a
\* non-zero exit (ok = FALSE), which may leave a partly written output; the
\* engine can exit 0 only if it could decode every input.
run(f, inputs, outp, result) ==
  {[ok |-> FALSE, fs |-> f], [ok |-> FALSE, fs |-> Write(f, outp, Partial)]}
  \cup (IF \A p \in inputs : Exists(f, p) /\ Decodable(f[p])
        THEN {[ok |-> TRUE, fs |-> Write(f, outp, result)]}
        ELSE {})

\* The fast filter graph's result on content c (src/app.py:52-71).
Fast(c) == Encoded("fast", c)
\* -t 110 -c copy (src/app.py:80)
Trim(c) == Encoded("t110", c)
\* rubberband or asetrate/atempo pitch shift (src/app.py:83-90)
Pitch(rb, c) == Encoded(IF rb THEN "dn2rb" ELSE "dn2", c)
\* demucs --two-stems vocals (src/app.py:101-111)
Vocals(c) == <<"vocals">> \o c
NoVocals(c) == <<"no_vocals">> \o c
\* the remix filter graph (src/app.py:140-153)
Mix(v, i) == <<"mix">> \o v \o i

\* ------------------------------------------------------------ records
\* payload_hq is the hq field of the payload whose task is waiting to start;
\* process_job itself receives only use_hq.
NoJob ==
  [pc |-> "idle", user_id |-> "", source_key |-> "", hq |-> FALSE,
   payload_hq |-> FALSE, voc_path |-> "", inst_path |-> ""]
\* ret: how process_job ended; hq_ret: how hq_demucs ended; trace: the steps
\* the run has taken, in order; applied: the transform that wrote the output;
\* key: the key the run uploaded to.
NoHist ==
  [ret |-> "none", hq_ret |-> "none", trace |-> << >>, applied |-> "", key |-> ""]
NoAck == [ok |-> FALSE, status |-> "", mode |-> ""]

ErrorLine(j, cause) == "[worker] ERROR job=" \o j \o ": " \o cause
DoneLine(url) == "[worker] done -> " \o url
DemucsFailedLine == "[worker] demucs failed, fallback to FAST"
OutputsMissingLine == "[worker] demucs outputs missing, fallback to FAST"

Live(j) == jobs[j].pc \notin {"idle", "done"}
Count(j, e) == Cardinality({i \in DOMAIN hist[j].trace : hist[j].trace[i] = e})
Did(j, e) == Count(j, e) > 0
Logged(j, line) == \E i \in DOMAIN log[j] : log[j][i] = line

Init ==
  /\ environ \in Environments
  /\ fs = << >>
  /\ dirs = {}
  /\ store = SourceObjects
  /\ jobs = [j \in JobIds |-> NoJob]
  /\ ack = [j \in JobIds |-> NoAck]
  /\ log = [j \in JobIds |-> << >>]
  /\ hist = [j \in JobIds |-> NoHist]
  /\ accepted = 0

\* ------------------------------------------------------------- intake
\* src/app.py:24-28: pydantic accepts a payload whose three ids are strings
\* and whose hq is a bool.
Payload(userId, jobId, sourceKey, hq) ==
  /\ userId \in STRING
  /\ jobId \in STRING
  /\ sourceKey \in STRING
  /\ hq \in BOOLEAN

\* src/app.py:194 (use_hq_request_only: the process-wide default ignored)
use_hq_request_only(hq) == hq
use_hq(hq) == hq \/ HQ_DEFAULT

\* src/app.py:196
Acknowledgment(hq) == [ok |-> TRUE, status |-> "ACCEPTED", mode |-> Mode(hq)]

\* A handler that answers only once the job is over: no acknowledgment at intake.
process_blocking(userId, jobId, sourceKey, hq) ==
  /\ accepted < MaxJobs
  /\ ~Live(jobId)
  /\ Payload(userId, jobId, sourceKey, hq)
  /\ jobs' = [jobs EXCEPT ![jobId] =
                [NoJob EXCEPT !.pc = "scheduled", !.user_id = userId,
                              !.source_key = sourceKey, !.hq = use_hq(hq),
                              !.payload_hq = hq]]
  /\ ack' = [ack EXCEPT ![jobId] = NoAck]
  /\ log' = [log EXCEPT ![jobId] = << >>]
  /\ hist' = [hist EXCEPT ![jobId] = NoHist]
  /\ accepted' = accepted + 1
  /\ UNCHANGED <<environ, fs, dirs, store>>

\* src/app.py:192-196 POST /process: add the background task and answer.
process(userId, jobId, sourceKey, hq) ==
  /\ accepted < MaxJobs
  /\ ~Live(jobId)
  /\ Payload(userId, jobId, sourceKey, hq)
  /\ jobs' = [jobs EXCEPT ![jobId] =
                [NoJob EXCEPT !.pc = "scheduled", !.user_id = userId,
                              !.source_key = sourceKey, !.hq = use_hq(hq),
                              !.payload_hq = hq]]
  /\ ack' = [ack EXCEPT ![jobId] = Acknowledgment(use_hq(hq))]
  /\ log' = [log EXCEPT ![jobId] = << >>]
  /\ hist' = [hist EXCEPT ![jobId] = NoHist]
  /\ accepted' = accepted + 1
  /\ UNCHANGED <<environ, fs, dirs, store>>

\* ---------------------------------------------------------- job runner
\* The run of j takes step e and stays inside process_job's try block.
Step(j, e) == hist' = [hist EXCEPT ![j].trace = Append(@, e)]

\* An except clause that logs and sends the job back to its download.
RaiseAndRetry(j, cause) ==
  /\ log' = [log EXCEPT ![j] = Append(@, ErrorLine(j, cause))]
  /\ jobs' = [jobs EXCEPT ![j].pc = "download"]

\* The except clause of process_job (src/app.py:183-184), then on to finally.
Raise(j, cause) ==
  /\ log' = [log EXCEPT ![j] = Append(@, ErrorLine(j, cause))]
  /\ jobs' = [jobs EXCEPT ![j].pc = "cleanup"]

\* src/app.py:11-19: building the client reads the credentials from os.environ.
r2_client_ok == environ.R2_ACCOUNT_ID # Unset

\* src/app.py:156-164: client, bucket, mode, key and paths, outside the try.
process_job_start(j) ==
  /\ jobs[j].pc = "scheduled"
  /\ IF r2_client_ok /\ environ.R2_BUCKET # Unset
     THEN /\ jobs' = [jobs EXCEPT ![j].pc = "download", ![j].payload_hq = FALSE]
          /\ Step(j, "start")
     ELSE /\ jobs' = [jobs EXCEPT ![j].pc = "done", ![j].payload_hq = FALSE]
          /\ hist' = [hist EXCEPT ![j].trace = Append(@, "start"), ![j].ret = "raised"]
  /\ UNCHANGED <<environ, fs, dirs, store, ack, log, accepted>>

\* What the transform dispatch of src/app.py:170-173 calls next.
Dispatch(hq) == IF hq THEN "trim" ELSE "fast"

\* src/app.py:167-173 s3.download_file, then the dispatch on hq.  A failed
\* download may leave a partly written file.
download(j) ==
  /\ jobs[j].pc = "download"
  /\ \/ /\ Exists(store, jobs[j].source_key)
        /\ fs' = Write(fs, SrcPath(j), store[jobs[j].source_key])
        /\ jobs' = [jobs EXCEPT ![j].pc = Dispatch(jobs[j].hq)]
        /\ log' = log
        /\ Step(j, "download_ok")
     \/ /\ fs' \in {fs, Write(fs, SrcPath(j), Partial)}
        /\ Raise(j, "download failed")
        /\ Step(j, "download_failed")
  /\ UNCHANGED <<environ, dirs, store, ack, accepted>>

\* The source fast_ffmpeg reads when hq_demucs falls back (src/app.py:116, 135).
FallbackSourceTrimmed(j) == T110Path(j)
FallbackSource(j) == SrcPath(j)

\* src/app.py:42-71 fast_ffmpeg(src, out), called by process_job (pc "fast") or
\* as the fallback of hq_demucs (pc "fallback").
fast_ffmpeg(j) ==
  /\ jobs[j].pc \in {"fast", "fallback"}
  /\ LET fallback == jobs[j].pc = "fallback"
         inp == IF fallback THEN FallbackSource(j) ELSE SrcPath(j)
     IN \E r \in run(fs, {inp}, OutPath(j), IF Exists(fs, inp) THEN Fast(fs[inp]) ELSE Empty) :
          /\ fs' = r.fs
          /\ IF r.ok
             THEN /\ jobs' = [jobs EXCEPT ![j].pc = "upload"]
                  /\ log' = log
                  /\ hist' = [hist EXCEPT ![j].trace = Append(@, "fast_ok"),
                                          ![j].applied = "FAST",
                                          ![j].hq_ret = IF fallback THEN "returned" ELSE @]
             ELSE /\ Raise(j, "ffmpeg failed")
                  /\ hist' = [hist EXCEPT ![j].trace = Append(@, "fast_failed"),
                                          ![j].hq_ret = IF fallback THEN "raised" ELSE @]
  /\ UNCHANGED <<environ, dirs, store, ack, accepted>>

\* ------------------------------------------------------- HQ transform
\* An exception leaving hq_demucs at step e: it reaches the except clause of
\* process_job.
HqRaise(j, e, cause) ==
  /\ Raise(j, cause)
  /\ hist' = [hist EXCEPT ![j].trace = Append(@, e), ![j].hq_ret = "raised"]

\* src/app.py:75-80 stage 1, trim to 110 s by stream copy.
hq_trim(j) ==
  /\ jobs[j].pc = "trim"
  /\ \E r \in run(fs, {SrcPath(j)}, T110Path(j),
                  IF Exists(fs, SrcPath(j)) THEN Trim(fs[SrcPath(j)]) ELSE Empty) :
       /\ fs' = r.fs
       /\ IF r.ok
          THEN /\ jobs' = [jobs EXCEPT ![j].pc = "pitch"]
               /\ log' = log
               /\ Step(j, "trim_ok")
          ELSE HqRaise(j, "trim_failed", "ffmpeg failed")
  /\ UNCHANGED <<environ, dirs, store, ack, accepted>>

\* src/app.py:34-39: the probe runs ffmpeg -filters; any exception means False.
has_rubberband(probe_ok) == probe_ok /\ environ.rubberband

\* src/app.py:82-90 stage 2, probe the ffmpeg build and pitch the trimmed file.
hq_pitch(j) ==
  /\ jobs[j].pc = "pitch"
  /\ \E probe_ok \in BOOLEAN :
       \E r \in run(fs, {T110Path(j)}, PitchPath(j),
                    IF Exists(fs, T110Path(j))
                    THEN Pitch(has_rubberband(probe_ok), fs[T110Path(j)]) ELSE Empty) :
         /\ fs' = r.fs
         /\ IF r.ok
            THEN /\ jobs' = [jobs EXCEPT ![j].pc = "purge"]
                 /\ log' = log
                 /\ Step(j, "pitch_ok")
            ELSE HqRaise(j, "pitch_failed", "ffmpeg failed")
  /\ UNCHANGED <<environ, dirs, store, ack, accepted>>

\* The directory the separation writes to and the runner purges
\* (src/app.py:93): the same directory for every job.
\* The files below demucs_out (rglob yields directories too, but unlink fails
\* on them and the failure is swallowed).
FilesUnderDemucsOut(f) == AllStemPaths \cap DOMAIN f

\* src/app.py:93-99: empty a demucs_out left by an earlier run; rmdir succeeds
\* only on a directory without entries.
hq_purge(j) ==
  /\ jobs[j].pc = "purge"
  /\ IF demucs_out \in dirs
     THEN /\ fs' = Remove(fs, FilesUnderDemucsOut(fs))
          /\ dirs' = IF dirs = {demucs_out} THEN {} ELSE dirs
     ELSE UNCHANGED <<fs, dirs>>
  /\ jobs' = [jobs EXCEPT ![j].pc = "sep"]
  /\ Step(j, "purge")
  /\ UNCHANGED <<environ, store, ack, log, accepted>>

\* src/app.py:101-113: the separation process, while it runs, writes the two
\* stems of its track below demucs_out/mdx/<track stem>/.
demucs_write(j) ==
  /\ jobs[j].pc = "sep"
  /\ Exists(fs, PitchPath(j))
  /\ Decodable(fs[PitchPath(j)])
  /\ dirs' = dirs \cup {demucs_out, ModelDir, TrackDir(j)}
  /\ fs' = Write(Write(fs, VocalsPath(j), Vocals(fs[PitchPath(j)])),
                 NoVocalsPath(j), NoVocals(fs[PitchPath(j)]))
  /\ jobs' = [jobs EXCEPT ![j].pc = "sep_written"]
  /\ Step(j, "sep_write")
  /\ UNCHANGED <<environ, store, ack, log, accepted>>

\* src/app.py:113: the separation process exits 0 (with or without outputs).
demucs_exit(j) ==
  /\ jobs[j].pc \in {"sep", "sep_written"}
  /\ jobs' = [jobs EXCEPT ![j].pc = "locate"]
  /\ Step(j, "sep_exit0")
  /\ UNCHANGED <<environ, fs, dirs, store, ack, log, accepted>>

\* src/app.py:114-117: timeout, non-zero exit or missing tool: log and go on
\* to fast_ffmpeg.
demucs_failed(j) ==
  /\ jobs[j].pc \in {"sep", "sep_written"}
  /\ jobs' = [jobs EXCEPT ![j].pc = "fallback"]
  /\ log' = [log EXCEPT ![j] = Append(@, DemucsFailedLine)]
  /\ Step(j, "sep_failed")
  /\ UNCHANGED <<environ, fs, dirs, store, ack, accepted>>

\* src/app.py:120-127: the first layout, <model dir>/<base>/{vocals,no_vocals}.wav
OwnStemsFound(f, ds, j) ==
  /\ ModelDir \in ds
  /\ Exists(f, VocalsPath(j))
  /\ Exists(f, NoVocalsPath(j))
\* src/app.py:129-130: rglob by file name, over every track directory.
hits_v(f) == {VocalsPath(k) : k \in JobIds} \cap DOMAIN f
hits_i(f) == {NoVocalsPath(k) : k \in JobIds} \cap DOMAIN f

\* src/app.py:119-136 locate the stems: iterdir raises if demucs_out is
\* missing; the first layout, then the first hits of the recursive search (in
\* directory order, which is arbitrary), else the fallback.
hq_locate(j) ==
  /\ jobs[j].pc = "locate"
  /\ IF demucs_out \notin dirs
     THEN HqRaise(j, "locate_raised", "No such file or directory: " \o demucs_out)
     ELSE IF OwnStemsFound(fs, dirs, j)
     THEN /\ jobs' = [jobs EXCEPT ![j].pc = "mix", ![j].voc_path = VocalsPath(j),
                                  ![j].inst_path = NoVocalsPath(j)]
          /\ log' = log
          /\ Step(j, "locate_ok")
     ELSE IF hits_v(fs) # {} /\ hits_i(fs) # {}
     THEN /\ \E v \in hits_v(fs), i \in hits_i(fs) :
               jobs' = [jobs EXCEPT ![j].pc = "mix", ![j].voc_path = v,
                                    ![j].inst_path = i]
          /\ log' = log
          /\ Step(j, "locate_ok")
     ELSE /\ jobs' = [jobs EXCEPT ![j].pc = "fallback"]
          /\ log' = [log EXCEPT ![j] = Append(@, OutputsMissingLine)]
          /\ Step(j, "locate_missing")
  /\ UNCHANGED <<environ, fs, dirs, store, ack, accepted>>

\* src/app.py:138-153 stage 4, remix the located stems into out_path.
hq_mix(j) ==
  /\ jobs[j].pc = "mix"
  /\ LET v == jobs[j].voc_path
         i == jobs[j].inst_path
     IN \E r \in run(fs, {v, i}, OutPath(j),
                     IF Exists(fs, v) /\ Exists(fs, i) THEN Mix(fs[v], fs[i]) ELSE Empty) :
          /\ fs' = r.fs
          /\ IF r.ok
             THEN /\ jobs' = [jobs EXCEPT ![j].pc = "upload"]
                  /\ log' = log
                  /\ hist' = [hist EXCEPT ![j].trace = Append(@, "mix_ok"),
                                          ![j].applied = "HQ", ![j].hq_ret = "returned"]
             ELSE HqRaise(j, "mix_failed", "ffmpeg failed")
  /\ UNCHANGED <<environ, dirs, store, ack, accepted>>

\* ------------------------------------------------- upload and cleanup
\* The key process_job uploads to (src/app.py:158-159): from the mode requested
\* (UploadKeyApplied: from the transform that wrote the output).
UploadKeyApplied(j) == out_key(jobs[j].user_id, j, hist[j].applied = "HQ")
UploadKey(j) == out_key(jobs[j].user_id, j, jobs[j].hq)

\* src/app.py:175-181 s3.upload_file and the done line; upload_file raises if
\* the local file is missing, or on a storage error.
upload(j) ==
  /\ jobs[j].pc = "upload"
  /\ \/ /\ Exists(fs, OutPath(j))
        /\ store' = Write(store, UploadKey(j), fs[OutPath(j)])
        /\ hist' = [hist EXCEPT ![j].trace = Append(@, "upload_ok"),
                                ![j].key = UploadKey(j)]
        /\ log' = [log EXCEPT ![j] = Append(@, DoneLine(Url(UploadKey(j))))]
        /\ jobs' = [jobs EXCEPT ![j].pc = "cleanup"]
     \/ /\ Raise(j, "upload failed")
        /\ Step(j, "upload_failed")
        /\ store' = store
  /\ UNCHANGED <<environ, fs, dirs, ack, accepted>>

\* The paths the finally clause removes (src/app.py:186).
CleanupPathsOutOnly(j) == {OutPath(j)}
CleanupPathsSrcOnly(j) == {SrcPath(j)}
CleanupPaths(j) == {SrcPath(j), OutPath(j)}

\* src/app.py:185-189 finally: unlink src and out if they exist; then
\* process_job returns.
cleanup(j) ==
  /\ jobs[j].pc = "cleanup"
  /\ fs' = Remove(fs, CleanupPaths(j))
  /\ jobs' = [jobs EXCEPT ![j].pc = "done"]
  /\ hist' = [hist EXCEPT ![j].trace = Append(@, "cleanup"), ![j].ret = "returned"]
  /\ UNCHANGED <<environ, dirs, store, ack, log, accepted>>

Next ==
  \/ \E u \in UserIds, j \in JobIds, k \in SourceKeys, h \in BOOLEAN : process(u, j, k, h)
  \/ \E j \in JobIds : process_job_start(j)
  \/ \E j \in JobIds : download(j)
  \/ \E j \in JobIds : fast_ffmpeg(j)
  \/ \E j \in JobIds : hq_trim(j)
  \/ \E j \in JobIds : hq_pitch(j)
  \/ \E j \in JobIds : hq_purge(j)
  \/ \E j \in JobIds : demucs_write(j)
  \/ \E j \in JobIds : demucs_exit(j)
  \/ \E j \in JobIds : demucs_failed(j)
  \/ \E j \in JobIds : hq_locate(j)
  \/ \E j \in JobIds : hq_mix(j)
  \/ \E j \in JobIds : upload(j)
  \/ \E j \in JobIds : cleanup(j)

Spec == Init /\ [][Next]_vars

\* ==================================================================
\* Properties
\* ==================================================================
Finished(j) == jobs[j].pc = "done"
\* Every path a run of job j can have created under /tmp.
CreatedPaths(j) == WorkspacePaths(j) \cup IntermediatePaths(j) \cup StemPaths(j)

\* C1: once a job has completed, no temporary file or directory it created
\* under /tmp exists any more, the HQ intermediates included.
C1_CleanupInvariant ==
  \A j \in JobIds :
    Finished(j) => /\ CreatedPaths(j) \cap DOMAIN fs = {}
                   /\ TrackDir(j) \notin dirs

\* C2: process_job never lets an exception escape to its caller.
C2_NeverPropagates ==
  \A j \in JobIds : hist[j].ret # "raised"

\* C3: hq_demucs never raises: every stage failure degrades to fast_ffmpeg.
C3_HqNeverRaises ==
  \A j \in JobIds : hist[j].hq_ret # "raised"

\* C4 as stated: an HQ job whose separation engine failed has, when it is
\* over, uploaded exactly one object, equal to the FAST transform of its source.
C4_SeparationFailureStillUploads ==
  \A j \in JobIds :
    (Finished(j) /\ Did(j, "sep_failed")) =>
      /\ hist[j].ret = "returned"
      /\ Count(j, "upload_ok") = 1
      /\ Exists(store, hist[j].key)
      /\ store[hist[j].key] = Fast(SourceObjects[jobs[j].source_key])

\* C4 amended: an HQ job whose separation engine failed raises nothing to its
\* caller, runs fast_ffmpeg once, uploads at most one object, and uploads one
\* exactly when that fallback transform and the upload succeed; the object is
\* then the FAST transform of the job's source.
C4_FallbackUploadsFastOutput ==
  \A j \in JobIds :
    Did(j, "sep_failed") =>
      /\ hist[j].ret # "raised"
      /\ Count(j, "fast_ok") + Count(j, "fast_failed") <= 1
      /\ Count(j, "upload_ok") <= 1
      /\ Did(j, "upload_ok") =>
           /\ hist[j].applied = "FAST"
           /\ Exists(store, hist[j].key)
           /\ store[hist[j].key] = Fast(SourceObjects[jobs[j].source_key])
      /\ Finished(j) =>
           /\ Did(j, "fast_ok") \/ Did(j, "fast_failed")
           /\ Did(j, "upload_ok") <=> (Did(j, "fast_ok") /\ ~Did(j, "upload_failed"))

C4_Witness ==
  \E j \in JobIds :
    /\ Finished(j)
    /\ Did(j, "sep_failed")
    /\ Did(j, "upload_ok")
    /\ store[hist[j].key] = Fast(Audio)

\* C5: the key a job uploads to carries the mode actually applied: FAST when
\* an HQ request fell back to fast_ffmpeg.
C5_KeyCarriesAppliedMode ==
  \A j \in JobIds :
    Did(j, "upload_ok") =>
      hist[j].key = out_key(jobs[j].user_id, j, hist[j].applied = "HQ")

\* C6: a step of one job creates, rewrites or deletes only paths that carry
\* that job's id, never a path of another job.
C6_NoSharedPaths ==
  [][\A j \in JobIds :
       jobs'[j] # jobs[j] =>
         \A p \in (DOMAIN fs) \cup (DOMAIN fs') :
           (p \in DOMAIN fs /\ p \in DOMAIN fs' /\ fs'[p] = fs[p]) \/ p \in CreatedPaths(j)]_vars

\* C7: the upload step is never reached with the output file missing or empty.
C7_UploadOnlyUsableOutput ==
  \A j \in JobIds :
    jobs[j].pc = "upload" => /\ Exists(fs, OutPath(j))
                             /\ fs[OutPath(j)] # Empty

\* C8: after a failed download the job runs no transform and no upload, logs
\* an ERROR line with its job id, and ends normally with its source and output
\* paths removed.
C8_DownloadFailureAborts ==
  \A j \in JobIds :
    Did(j, "download_failed") =>
      /\ hist[j].trace \in {<<"start", "download_failed">>,
                            <<"start", "download_failed", "cleanup">>}
      /\ hist[j].key = ""
      /\ Logged(j, ErrorLine(j, "download failed"))
      /\ Len(log[j]) = 1
      /\ Finished(j) => /\ hist[j].ret = "returned"
                        /\ WorkspacePaths(j) \cap DOMAIN fs = {}

C8_Witness ==
  \E j \in JobIds :
    /\ Finished(j)
    /\ Did(j, "download_failed")
    /\ jobs[j].source_key = ""

\* C9: no descriptor with an empty userId, jobId or sourceKey is acknowledged
\* or scheduled.
C9_IntakeRejectsEmpty ==
  \A j \in JobIds :
    (jobs[j].pc # "idle" \/ ack[j].status = "ACCEPTED") =>
      /\ j # ""
      /\ jobs[j].user_id # ""
      /\ jobs[j].source_key # ""

\* C10: accepting a descriptor schedules one run of process_job and returns
\* the acknowledgment in the same step, before any step of the job; the run
\* starts at most once; no step of the job changes the acknowledgment.
C10_FireAndForget ==
  /\ [][\A j \in JobIds :
          (~Live(j) /\ jobs'[j] # jobs[j]) =>
            /\ jobs'[j].pc = "scheduled"
            /\ hist'[j] = NoHist
            /\ ack'[j] = [ok |-> TRUE, status |-> "ACCEPTED", mode |-> Mode(jobs'[j].hq)]
            /\ accepted' = accepted + 1
            /\ fs' = fs /\ store' = store
            /\ \A k \in JobIds \ {j} : jobs'[k] = jobs[k]]_vars
  /\ [][\A j \in JobIds : Live(j) => ack'[j] = ack[j]]_vars
  /\ [](\A j \in JobIds :
          /\ Count(j, "start") <= 1
          /\ jobs[j].pc \notin {"idle", "scheduled"} => Count(j, "start") = 1)

C10_Witness ==
  \E j \in JobIds :
    /\ Finished(j)
    /\ ack[j] = [ok |-> TRUE, status |-> "ACCEPTED", mode |-> "HQ"]
    /\ Did(j, "upload_failed")

\* The steps at which an exception reaches the except clause of process_job.
FailureSteps ==
  {"download_failed", "fast_failed", "trim_failed", "pitch_failed",
   "locate_raised", "mix_failed", "upload_failed"}
AllSteps ==
  FailureSteps \cup
  {"start", "download_ok", "fast_ok", "trim_ok", "pitch_ok", "purge", "sep_write",
   "sep_exit0", "sep_failed", "locate_ok", "locate_missing", "mix_ok", "upload_ok",
   "cleanup"}

\* C11: in one run the download and the upload are each attempted at most
\* once, no step is taken twice, and after a step that raised the run takes
\* no further step but the cleanup: no retry, no storage call after a failure.
C11_AtMostOnce ==
  \A j \in JobIds :
    LET t == hist[j].trace
    IN /\ Count(j, "download_ok") + Count(j, "download_failed") <= 1
       /\ Count(j, "upload_ok") + Count(j, "upload_failed") <= 1
       /\ \A e \in AllSteps : Count(j, e) <= 1
       /\ \A i \in DOMAIN t :
            t[i] \in FailureSteps =>
              \/ i = Len(t)
              \/ i = Len(t) - 1 /\ t[Len(t)] = "cleanup"
       /\ hist[j].ret = "raised" => t = <<"start">>

C11_Witness ==
  \E j \in JobIds :
    /\ Finished(j)
    /\ Did(j, "download_ok")
    /\ Did(j, "upload_failed")
    /\ hist[j].key = ""

\* The has_rubberband() calls made so far, as (job, position in its trace):
\* hq_demucs probes once in each pitch step.
Probes ==
  UNION {{<<j, i>> : i \in {k \in DOMAIN hist[j].trace :
                               hist[j].trace[k] \in {"pitch_ok", "pitch_failed"}}} :
         j \in JobIds}

\* C12: the probe of the pitch-shift engine runs at most once in the process,
\* however many HQ jobs run.
C12_ProbeAtMostOnce ==
  Cardinality(Probes) <= 1

\* The key a caller computes from the ids it sent and the mode of the
\* acknowledgment it got.
PredictedKey(user_id, job_id, mode) ==
  "pre/" \o user_id \o "/" \o job_id \o "_proc_"
         \o (IF mode = "HQ" THEN "hq" ELSE "fast") \o ".mp3"

\* C13: the key a run uploads to is the one computed from ownerId, jobId and
\* the acknowledged mode, in every environment and whatever happened in the
\* job (fallback included), and the object is stored under that key.
C13_KeyPredictable ==
  \A j \in JobIds :
    Did(j, "upload_ok") =>
      /\ hist[j].key = PredictedKey(jobs[j].user_id, j, ack[j].mode)
      /\ Exists(store, PredictedKey(jobs[j].user_id, j, ack[j].mode))
      /\ Logged(j, DoneLine(IF environ.R2_PUBLIC_BASE = Unset
                            THEN PredictedKey(jobs[j].user_id, j, ack[j].mode)
                            ELSE environ.R2_PUBLIC_BASE \o "/"
                                 \o PredictedKey(jobs[j].user_id, j, ack[j].mode)))

C13_Witness ==
  \E j \in JobIds :
    /\ Finished(j)
    /\ Did(j, "sep_failed")
    /\ Did(j, "upload_ok")
    /\ hist[j].key = "pre/u1/j1_proc_hq.mp3"
    /\ environ.R2_PUBLIC_BASE = Unset

SeparationCameToNothing(j) ==
  \/ Did(j, "sep_failed")
  \/ Did(j, "sep_exit0") /\ ~Did(j, "sep_write")
LeftTransform(j) == jobs[j].pc \in {"upload", "cleanup", "done"}

\* C15: after a separation timeout, a non-zero exit, or a zero exit without
\* output files (demucs_out never created included), hq_demucs runs
\* fast_ffmpeg exactly once, on the original source, and returns without
\* locating failure or remix.
C15_SeparationFallsBack ==
  \A j \in JobIds :
    (SeparationCameToNothing(j) /\ LeftTransform(j)) =>
      /\ Count(j, "fast_ok") + Count(j, "fast_failed") = 1
      /\ ~Did(j, "locate_raised")
      /\ ~Did(j, "mix_ok") /\ ~Did(j, "mix_failed")
      /\ jobs[j].pc = "upload" =>
           /\ Exists(fs, OutPath(j))
           /\ fs[OutPath(j)] = Fast(SourceObjects[jobs[j].source_key])

\* C16: a run of process_job that has ended has executed its cleanup phase
\* exactly once, a run that failed to get its storage client or bucket
\* included.
C16_CleanupExactlyOnce ==
  \A j \in JobIds :
    Finished(j) => Count(j, "cleanup") = 1

\* C17: a FAST job whose engine run exits non-zero attempts no upload, writes
\* no object, logs one ERROR line with its job id and ends with its source and
\* output paths removed.
C17_FastFailureAborts ==
  \A j \in JobIds :
    (~jobs[j].hq /\ Did(j, "fast_failed")) =>
      /\ hist[j].trace \in {<<"start", "download_ok", "fast_failed">>,
                            <<"start", "download_ok", "fast_failed", "cleanup">>}
      /\ hist[j].key = ""
      /\ log[j] = <<ErrorLine(j, "ffmpeg failed")>>
      /\ Finished(j) => /\ hist[j].ret = "returned"
                        /\ ~Exists(fs, SrcPath(j))
                        /\ ~Exists(fs, OutPath(j))

C17_Witness ==
  \E j \in JobIds :
    /\ Finished(j)
    /\ ~jobs[j].hq
    /\ Did(j, "fast_failed")
    /\ jobs[j].source_key = "source/u1/a.mp3"

\* The terminal lines of a run's log: everything but the two fallback notices.
TerminalLines(j) ==
  {i \in DOMAIN log[j] : log[j][i] \notin {DemucsFailedLine, OutputsMissingLine}}
ExpectedUrl(j) ==
  LET key == PredictedKey(jobs[j].user_id, j, ack[j].mode)
  IN IF environ.R2_PUBLIC_BASE \in {Unset, ""}
     THEN key ELSE environ.R2_PUBLIC_BASE \o "/" \o key

\* C18: a run that has ended has printed exactly one terminal line: the done
\* line with the URL if the upload succeeded, otherwise an ERROR line.
C18_OneTerminalLine ==
  \A j \in JobIds :
    Finished(j) =>
      /\ Cardinality(TerminalLines(j)) = 1
      /\ Did(j, "upload_ok") <=> Logged(j, DoneLine(ExpectedUrl(j)))
      /\ ~Did(j, "upload_ok") =>
           \E i \in TerminalLines(j) :
             \E cause \in {"download failed", "ffmpeg failed", "upload failed",
                           "No such file or directory: " \o demucs_out} :
               log[j][i] = ErrorLine(j, cause)

\* C19: the stems a job remixes are the ones its own separation wrote, at its
\* own track directory, from its own pitched audio.
C19_StemIsolation ==
  \A j \in JobIds :
    /\ jobs[j].pc = "mix" =>
         /\ jobs[j].voc_path = VocalsPath(j)
         /\ jobs[j].inst_path = NoVocalsPath(j)
    /\ (jobs[j].pc = "upload" /\ Did(j, "mix_ok")) =>
         \E rb \in BOOLEAN :
           fs[OutPath(j)] =
             Mix(Vocals(Pitch(rb, Trim(SourceObjects[jobs[j].source_key]))),
                 NoVocals(Pitch(rb, Trim(SourceObjects[jobs[j].source_key]))))

====
